---- MODULE Spec2Model ----
(***************************************************************************)
(* Model of graphenestorage.masterpassword.MasterPassword: the vault that  *)
(* keeps a random master secret in a configuration store, encrypted under  *)
(* a user password and tagged with a 4-character checksum; and of          *)
(* grapheneapi.api.Api, the RPC proxy that fails over between node URLs    *)
(* (specification SpecApi, in the second half of the module).              *)
(*                                                                         *)
(* Python values are represented as follows.                               *)
(*   str       a sequence of one-character strings, "" is << >>            *)
(*   None / x  an optional: None is << >>, a present value x is << x >>    *)
(*   raise E   a result record whose err field names the exception         *)
(* Every method is an operator from the object's state (a record of its    *)
(* fields, the store, the environment and the random draws still to be     *)
(* consumed) to a result record [st, err, ret]. The state also counts the  *)
(* writes to the store (writes) and lists the master secrets drawn (drawn) *)
(* during the call.                                                        *)
(***************************************************************************)
EXTENDS Integers, Sequences, FiniteSets, TLC

VARIABLES
    password,           \* self.password: None or Some(str)
    decrypted_master,   \* self.decrypted_master: None or Some(str)
    config,             \* self.config["encrypted_master_password"]: None when the key is absent
    environ,            \* os.environ["UNLOCK"]: None when the variable is unset
    last,               \* the last call made on the vault: its name, argument, outcome and the state before it
    hist,               \* the calls made since construction while they follow a recorded scenario
    generated,          \* the first master secret newMaster drew on this vault: None before
    tampered,           \* the stored value as it was before it was altered outside the vault: None when it was not
    api,                \* the fields of the grapheneapi.api.Api object: None where no Api is modelled
    pc,                 \* where the Api's caller stands: in connect(), in the loop of a proxied call, idle or failed
    run                 \* the connect() or proxied call in progress: its attempts, its last step and its result

vaultVars == <<password, decrypted_master, config, environ, last, hist, generated, tampered>>
apiVars == <<api, pc, run>>
vars == <<password, decrypted_master, config, environ, last, hist, generated, tampered, api, pc, run>>

-----------------------------------------------------------------------------
(* Bounds of the model *)

NumPasswords == 3       \* passwords a caller may pass: the first NumPasswords of PasswordPool
NumMasters == 2         \* distinct outcomes of os.urandom the model draws from

-----------------------------------------------------------------------------
(* Python values *)

None == << >>
Some(x) == << x >>
Val(o) == o[1]

\* bool(x) of an optional string: None and "" are falsy
Truthy(o) == o # None /\ Len(Val(o)) > 0

Ok(st, ret) == [st |-> st, err |-> "ok", ret |-> ret]
Raise(st, e) == [st |-> st, err |-> e, ret |-> None]

\* the positions of character c in s, in increasing order
RECURSIVE Sorted(_)
Sorted(S) == IF S = {} THEN << >>
             ELSE LET m == CHOOSE x \in S : \A y \in S : x <= y
                  IN  << m >> \o Sorted(S \ {m})
Occurrences(s, c) == Sorted({i \in 1..Len(s) : s[i] = c})

\* str.split(sep) for a one-character separator: the pieces between
\* consecutive separators, one more than there are separators
Split(s, sep) ==
    LET at == Occurrences(s, sep)
        n == Len(at)
    IN  [k \in 1..(n + 1) |->
            SubSeq(s, IF k = 1 THEN 1 ELSE at[k - 1] + 1,
                      IF k = n + 1 THEN Len(s) ELSE at[k] - 1)]

-----------------------------------------------------------------------------
(* Random sources and library primitives *)

MasterBytes == 32

HexDigits == <<"0","1","2","3","4","5","6","7","8","9","a","b","c","d","e","f">>

\* binascii.hexlify(b).decode("ascii"): two lower-case hex digits per byte
Hexlify(b) ==
    [i \in 1..(2 * Len(b)) |->
        IF i % 2 = 1 THEN HexDigits[(b[(i + 1) \div 2] \div 16) + 1]
                     ELSE HexDigits[(b[i \div 2] % 16) + 1]]

\* the n-byte strings os.urandom(n) is taken to return, one per seed
UrandomDraw(seed, n) == [k \in 1..n |-> (seed * 37 + k * 11) % 256]
Urandom(n) == {UrandomDraw(seed, n) : seed \in 1..NumMasters}

\* the initialisation vectors the cipher may draw, and the streams of
\* them one call may consume: every encryption draws a fresh one
IVs == {"A", "B", "C", "D", "E", "F"}
IVStreams == {<<"A", "B", "C">>, <<"D", "E", "F">>}

\* hexlify(os.urandom(MasterBytes)) for each seed
Master1 == Hexlify(UrandomDraw(1, MasterBytes))
Master2 == Hexlify(UrandomDraw(2, MasterBytes))
Master3 == Hexlify(UrandomDraw(3, MasterBytes))
Master4 == Hexlify(UrandomDraw(4, MasterBytes))

\* for each master secret, a short string whose SHA-256 begins with the same
\* four digits: "ep0", "ad4e", "ag0s", "a8o"
Collision1 == <<"e", "p", "0">>
Collision2 == <<"a", "d", "4", "e">>
Collision3 == <<"a", "g", "0", "s">>
Collision4 == <<"a", "8", "o">>

\* hashlib.sha256(bytes(s, "ascii")).hexdigest(), first 8 digits, of the strings
\* the model hashes: the possible master secrets, the empty string and the
\* strings that collide with a master secret on the first four digits
Sha256Hex(s) ==
    CASE s = << >> -> <<"e","3","b","0","c","4","4","2">>
      [] s = Master1 -> <<"6","7","d","5","1","f","8","2">>
      [] s = Master2 -> <<"6","b","9","4","9","9","2","e">>
      [] s = Master3 -> <<"2","9","9","a","c","e","b","c">>
      [] s = Master4 -> <<"f","1","4","3","b","0","d","2">>
      [] s = Collision1 -> <<"6","7","d","5","5","7","d","a">>
      [] s = Collision2 -> <<"6","b","9","4","2","e","4","7">>
      [] s = Collision3 -> <<"2","9","9","a","c","0","7","9">>
      [] s = Collision4 -> <<"f","1","4","3","9","5","e","3">>

\* AESCipher(key).encrypt(plaintext) with initialisation vector iv: an opaque
\* string that names the key it was made with and never contains "$"
AesEncrypt(key, iv, plaintext) == << iv >> \o key \o << "=" >> \o plaintext

\* position of the first "=" in s, 0 if there is none
FirstEq(s) == LET at == Occurrences(s, "=") IN IF at = << >> THEN 0 ELSE at[1]

\* AESCipher(key).decrypt(enc): the plaintext under the right key; under a wrong
\* key or on a malformed input it raises (None) or, the cipher being
\* unauthenticated, returns a garbage plaintext (the empty string), as `dec` says
AesDecrypt(key, enc, dec) ==
    LET e == FirstEq(enc) IN
    IF e >= 2 /\ enc[1] \in IVs /\ SubSeq(enc, 2, e - 1) = key
    THEN Some(SubSeq(enc, e + 1, Len(enc)))
    ELSE IF dec = "garbage" THEN Some(<< >>) ELSE None

\* bip38.encrypt(privkey, passphrase) formatted as "encwif": None when it raises
Bip38Encrypt(wif, passphrase) ==
    IF passphrase = None THEN None
    ELSE Some(<<"6", "P">> \o SubSeq(Sha256Hex(Val(passphrase)), 1, 2) \o wif)

\* bip38.decrypt(encwif, passphrase) formatted as "wif": None when it raises
Bip38Decrypt(encwif, passphrase) ==
    IF passphrase = None \/ Len(encwif) < 4 THEN None
    ELSE IF SubSeq(encwif, 1, 4) = <<"6", "P">> \o SubSeq(Sha256Hex(Val(passphrase)), 1, 2)
         THEN Some(SubSeq(encwif, 5, Len(encwif)))
         ELSE None

-----------------------------------------------------------------------------
(* MasterPassword: the methods *)

\* the next initialisation vector, and the state with that draw consumed
NextIV(s) == Head(s.rnd.ivs)
Consume(s) == [s EXCEPT !.rnd.ivs = Tail(@)]

\* deriveChecksum(s): the first four hex digits of the SHA-256 of s
deriveChecksum(s) == SubSeq(Sha256Hex(s), 1, 4)

\* lock(): forgets the password
lock(s) == Ok([s EXCEPT !.password = None], None)

\* raiseWrongMasterPasswordException() without line 94: raises with the password kept
raiseWrongKeepingPassword(s) == Raise(s, "WrongMasterPasswordException")

\* raiseWrongMasterPasswordException(): forgets the password and raises
raiseWrongMasterPasswordException(s) ==
    Raise([s EXCEPT !.password = None], "WrongMasterPasswordException")

\* decryptEncryptedMaster() without the checksum comparison of lines 89-90
decryptWithoutChecksum(s) ==
    IF s.password = None THEN Raise(s, "TypeError")
    ELSE IF s.config = None THEN Raise(s, "KeyError")
    ELSE
    LET parts == Split(Val(s.config), "$") IN
    IF Len(parts) # 2 THEN Raise(s, "ValueError")
    ELSE LET decrypted == AesDecrypt(Val(s.password), parts[2], s.rnd.dec)
         IN  IF decrypted = None THEN raiseWrongMasterPasswordException(s)
             ELSE Ok([s EXCEPT !.decrypted_master = decrypted], None)

\* decryptEncryptedMaster(): splits the stored envelope at "$" into exactly two
\* parts (ValueError otherwise), decrypts the second under the password and
\* compares the first with the checksum of the plaintext. Called by unlock it
\* finds a password and a stored value; called on its own with no password it
\* fails where the cipher derives its key (TypeError, line 83), and with a
\* password but nothing stored where it reads the store (KeyError, line 84)
decryptEncryptedMaster(s) ==
    IF s.password = None THEN Raise(s, "TypeError")
    ELSE IF s.config = None THEN Raise(s, "KeyError")
    ELSE
    LET parts == Split(Val(s.config), "$") IN
    IF Len(parts) # 2 THEN Raise(s, "ValueError")
    ELSE LET checksum == parts[1]
             encrypted_master == parts[2]
             decrypted == AesDecrypt(Val(s.password), encrypted_master, s.rnd.dec)
         IN  IF decrypted = None THEN raiseWrongMasterPasswordException(s)
             ELSE IF checksum # deriveChecksum(Val(decrypted))
                  THEN raiseWrongMasterPasswordException(s)
                  ELSE Ok([s EXCEPT !.decrypted_master = decrypted], None)

\* unlocked() while a password is held: bool(password)
passwordHeld(s) == Ok(s, Truthy(s.password))

\* lines 126-132 of getEncryptedMaster(), u being the result of its call of
\* unlocked(): the errors of unlocked() pass through, a false result raises,
\* and the envelope "<checksum>$<ciphertext>" is built from the password and
\* the master secret held after it
EncryptedMasterAfter(u) ==
    IF u.err # "ok" THEN u
    ELSE IF ~u.ret THEN Raise(u.st, "NeedToUnlock")
    ELSE Ok(Consume(u.st),
            Some(deriveChecksum(Val(u.st.decrypted_master)) \o << "$" >>
                 \o AesEncrypt(Val(u.st.password), NextIV(u.st),
                               Val(u.st.decrypted_master))))

\* line 98 of saveEncrytpedMaster(), g being the result of its call of
\* getEncryptedMaster(): the envelope is written to the store
StoreEncryptedMaster(g) ==
    IF g.err # "ok" THEN g
    ELSE Ok([g.st EXCEPT !.config = g.ret, !.writes = @ + 1], None)

\* getEncryptedMaster() as unlock and newMaster reach it, right after they
\* assigned the password (lines 73, 111): its call of unlocked() is the
\* branch of lines 49-50. This is where the cycle unlocked -> unlock ->
\* newMaster -> saveEncrytpedMaster -> getEncryptedMaster -> unlocked ends
getEncryptedMasterHeld(s) ==
    IF ~Truthy(s.decrypted_master) THEN Raise(s, "MasterNotDecrypted")
    ELSE EncryptedMasterAfter(passwordHeld(s))

\* saveEncrytpedMaster() as unlock and newMaster reach it
saveEncrytpedMasterHeld(s) == StoreEncryptedMaster(getEncryptedMasterHeld(s))

\* newMaster(password) with the draw of line 108 made before the test of lines 104-106
newMasterDrawingFirst(s, pw) ==
    LET s1 == [s EXCEPT !.decrypted_master = Some(Hexlify(s.rnd.master)),
                        !.drawn = Append(@, Hexlify(s.rnd.master))]
    IN  IF s.config # None /\ Len(Val(s.config)) > 0 THEN Raise(s1, "AlreadyHasMaster")
        ELSE LET r == saveEncrytpedMasterHeld([s1 EXCEPT !.password = Some(pw)])
             IN  IF r.err # "ok" THEN r ELSE Ok(r.st, r.st.decrypted_master)

\* newMaster(password): refuses when the store holds a non-empty envelope;
\* otherwise draws a master secret, takes the password and saves the envelope
newMaster(s, pw) ==
    IF s.config # None /\ Len(Val(s.config)) > 0 THEN Raise(s, "AlreadyHasMaster")
    ELSE LET s1 == [s EXCEPT !.decrypted_master = Some(Hexlify(s.rnd.master)),
                             !.drawn = Append(@, Hexlify(s.rnd.master))]
             s2 == [s1 EXCEPT !.password = Some(pw)]
             r == saveEncrytpedMasterHeld(s2)
         IN  IF r.err # "ok" THEN r ELSE Ok(r.st, r.st.decrypted_master)

\* unlock(password) without the test of line 74: it always bootstraps
unlockAlwaysBootstrapping(s, pw) ==
    LET r == newMaster([s EXCEPT !.password = Some(pw)], pw) IN
    IF r.err # "ok" THEN r ELSE saveEncrytpedMasterHeld(r.st)

\* unlock(password): takes the password, then bootstraps the store when it
\* has no envelope and decrypts the stored envelope when it has one
unlock(s, pw) ==
    LET s1 == [s EXCEPT !.password = Some(pw)] IN
    IF s1.config = None
    THEN LET r == newMaster(s1, pw) IN
         IF r.err # "ok" THEN r ELSE saveEncrytpedMasterHeld(r.st)
    ELSE decryptEncryptedMaster(s1)

\* unlocked(): bool(password) when a password is held; otherwise, when the
\* environment variable UNLOCK is set and non-empty, unlock() with its value
unlocked(s) ==
    IF s.password # None THEN passwordHeld(s)
    ELSE IF Truthy(s.environ)
         THEN LET r == unlock(s, Val(s.environ)) IN
              IF r.err # "ok" THEN r ELSE Ok(r.st, Truthy(r.st.password))
         ELSE Ok(s, FALSE)

\* getEncryptedMaster(): "<checksum>$<ciphertext>" of the master secret under
\* the password; raises when no master secret is held or unlocked() is false.
\* Its call of unlocked() runs the implicit unlock when no password is held
getEncryptedMaster(s) ==
    IF ~Truthy(s.decrypted_master) THEN Raise(s, "MasterNotDecrypted")
    ELSE EncryptedMasterAfter(unlocked(s))

\* saveEncrytpedMaster(): writes getEncryptedMaster() to the store
saveEncrytpedMaster(s) == StoreEncryptedMaster(getEncryptedMaster(s))

\* changePassword(newpassword) without line 138: it saves under the old password
changePasswordKeepingOld(s, newpassword) ==
    LET u == unlocked(s) IN
    IF u.err # "ok" THEN u
    ELSE IF ~u.ret THEN Raise(u.st, "AssertionError")
    ELSE saveEncrytpedMaster(u.st)

\* changePassword(newpassword) drawing a new master secret before it saves
changePasswordRegenerating(s, newpassword) ==
    LET u == unlocked(s) IN
    IF u.err # "ok" THEN u
    ELSE IF ~u.ret THEN Raise(u.st, "AssertionError")
    ELSE saveEncrytpedMaster([u.st EXCEPT !.password = Some(newpassword),
                                          !.decrypted_master = Some(Hexlify(s.rnd.master))])

\* changePassword(newpassword): asserts unlocked(), takes the new password and
\* saves the envelope under it
changePassword(s, newpassword) ==
    LET u == unlocked(s) IN
    IF u.err # "ok" THEN u
    ELSE IF ~u.ret THEN Raise(u.st, "AssertionError")
    ELSE saveEncrytpedMaster([u.st EXCEPT !.password = Some(newpassword)])

\* locked(): not unlocked()
locked(s) ==
    LET u == unlocked(s) IN
    IF u.err # "ok" THEN u ELSE Ok(u.st, ~u.ret)

\* encrypt(wif): wraps a credential under the master secret held
encrypt(s, wif) ==
    LET w == Bip38Encrypt(wif, s.decrypted_master) IN
    IF w = None THEN Raise(s, "Bip38Error") ELSE Ok(s, w)

\* decrypt(wif): unwraps a credential under the master secret held
decrypt(s, wif) ==
    LET w == Bip38Decrypt(wif, s.decrypted_master) IN
    IF w = None THEN Raise(s, "Bip38Error") ELSE Ok(s, w)

-----------------------------------------------------------------------------
(* Inputs *)

PasswordPool == << << >>, <<"a", "b">>, <<"x", "y">>, <<"k">>, <<"a", "b", "c">> >>

\* the passwords a caller passes: the empty string and non-empty ones
Passwords == {PasswordPool[i] : i \in 1..NumPasswords}

\* the raw credentials a caller wraps
Wifs == {<<"5", "J">>, <<"5", "K">>}

\* the master secrets newMaster can draw
Masters == {Hexlify(b) : b \in Urandom(MasterBytes)}

\* the wrapped credentials a caller unwraps: wrapped under some master secret, or malformed
EncWifs == {Val(Bip38Encrypt(w, Some(m))) : w \in Wifs, m \in Masters} \cup {<<"6">>}

\* the random draws one call may consume: the outcome of os.urandom, the
\* initialisation vectors of its encryptions, and what the cipher does when it
\* decrypts under a wrong key
Rnds == [master : Urandom(MasterBytes), ivs : IVStreams, dec : {"raise", "garbage"}]

\* the draws of a call that consumes none
NoRnd == [master |-> UrandomDraw(1, MasterBytes), ivs |-> <<"A", "B", "C">>, dec |-> "raise"]

\* the draws that tell two runs of newMaster(pw) apart: none when it refuses
NewMasterRnds(cfg) ==
    IF cfg # None /\ Len(Val(cfg)) > 0 THEN {NoRnd}
    ELSE {r \in Rnds : r.dec = NoRnd.dec}

\* the draws that tell two runs of unlock(pw) apart: with no envelope stored
\* it draws a master secret and encrypts, with one stored it only decrypts
UnlockRnds(cfg) ==
    IF cfg = None THEN {r \in Rnds : r.dec = NoRnd.dec}
    ELSE {r \in Rnds : r.master = NoRnd.master /\ r.ivs = NoRnd.ivs}

\* the draws that tell two runs of unlocked() apart: none while a password is
\* held or the environment offers none, else those of the unlock it makes
UnlockedRnds(pw, env, cfg) ==
    IF pw # None \/ ~Truthy(env) THEN {NoRnd} ELSE UnlockRnds(cfg)

\* the draws that tell two runs of changePassword apart: those of unlocked()
\* and the initialisation vector of the envelope it saves
ChangePasswordRnds(pw, env, cfg) ==
    IF pw # None \/ ~Truthy(env) THEN {r \in Rnds : r.master = NoRnd.master /\ r.dec = NoRnd.dec}
    ELSE IF cfg = None THEN UnlockRnds(cfg)
    ELSE {r \in Rnds : r.master = NoRnd.master}

\* the draws that tell two runs of getEncryptedMaster or saveEncrytpedMaster
\* apart: none when no master secret is held, else those of unlocked() and
\* the initialisation vector of the envelope
SaveRnds(dm, pw, env, cfg) ==
    IF ~Truthy(dm) THEN {NoRnd} ELSE ChangePasswordRnds(pw, env, cfg)

\* an envelope as getEncryptedMaster builds it
Envelope(pw, iv, master) == deriveChecksum(master) \o << "$" >> \o AesEncrypt(pw, iv, master)

StoredMaster == Master1
StoredEnvelope == Envelope(PasswordPool[2], "A", StoredMaster)

\* what the store given to the constructor may hold under the envelope key:
\* nothing, an empty value, an envelope of an earlier run, or a value that is
\* no envelope (no "$", two "$", a checksum that is not the master's)
InitConfigs ==
    { None,
      Some(<< >>),
      Some(StoredEnvelope),
      Some(deriveChecksum(StoredMaster) \o AesEncrypt(PasswordPool[2], "A", StoredMaster)),
      Some(StoredEnvelope \o << "$" >>),
      Some(<<"0", "0", "0", "0", "$">> \o AesEncrypt(PasswordPool[2], "A", StoredMaster)) }

\* what os.environ may hold for UNLOCK: unset, or a string
InitEnvirons == {None, Some(PasswordPool[1]), Some(PasswordPool[2])}

-----------------------------------------------------------------------------
(* The state machine: one action per method of the class *)

\* the object as the methods see it, with the random draws of this call
Self(rnd) ==
    [password |-> password, decrypted_master |-> decrypted_master,
     config |-> config, environ |-> environ, writes |-> 0, drawn |-> << >>, rnd |-> rnd]

\* the scenarios hist records, as sequences of method names
Scenarios ==
    { <<"unlock", "lock", "unlock">>,
      <<"unlock", "changePassword", "lock", "unlock", "unlock">>,
      <<"unlock", "encrypt", "decrypt">>,
      <<"unlock", "encrypt", "changePassword", "lock", "unlock", "decrypt">> }

IsPrefix(a, b) == Len(a) <= Len(b) /\ SubSeq(b, 1, Len(a)) = a

OpNames(calls) == [i \in 1..Len(calls) |-> calls[i].op]

\* hist after one more call: recorded while the calls follow a scenario
Record(h, call) ==
    LET calls == Append(h.calls, call) IN
    IF h.on /\ \E sc \in Scenarios : IsPrefix(OpNames(calls), sc)
    THEN [on |-> TRUE, calls |-> calls]
    ELSE [on |-> FALSE, calls |-> << >>]

\* the effect of a call whose result is r
Step(op, arg, r) ==
    /\ password' = r.st.password
    /\ decrypted_master' = r.st.decrypted_master
    /\ config' = r.st.config
    /\ environ' = environ
    /\ last' = [op |-> op, arg |-> arg, err |-> r.err, ret |-> r.ret,
                writes |-> r.st.writes, drawn |-> r.st.drawn,
                pre |-> [password |-> password,
                         decrypted_master |-> decrypted_master,
                         config |-> config, generated |-> generated]]
    /\ generated' = IF generated = None /\ r.st.drawn # << >>
                    THEN Some(r.st.drawn[1]) ELSE generated
    /\ hist' = Record(hist, [op |-> op, arg |-> arg, err |-> r.err, ret |-> r.ret,
                             mk |-> r.st.decrypted_master])
    /\ tampered' = IF r.st.writes > 0 THEN None ELSE tampered
    /\ UNCHANGED apiVars

Init ==
    /\ password = None
    /\ decrypted_master = None
    /\ config \in InitConfigs
    /\ environ \in InitEnvirons
    /\ last = [op |-> "init", arg |-> None, err |-> "ok", ret |-> None,
               writes |-> 0, drawn |-> << >>,
               pre |-> [password |-> None, decrypted_master |-> None,
                        config |-> config, generated |-> None]]
    /\ generated = None
    /\ hist = [on |-> (config = None), calls |-> << >>]
    /\ tampered = None
    /\ api = None
    /\ pc = "none"
    /\ run = None

Unlock == \E pw \in Passwords, rnd \in UnlockRnds(config) : Step("unlock", Some(pw), unlock(Self(rnd), pw))

Lock == Step("lock", None, lock(Self(NoRnd)))

ChangePassword ==
    \E pw \in Passwords, rnd \in ChangePasswordRnds(password, environ, config) :
        Step("changePassword", Some(pw), changePassword(Self(rnd), pw))

NewMaster == \E pw \in Passwords, rnd \in NewMasterRnds(config) : Step("newMaster", Some(pw), newMaster(Self(rnd), pw))

Unlocked == \E rnd \in UnlockedRnds(password, environ, config) : Step("unlocked", None, unlocked(Self(rnd)))

Locked == \E rnd \in UnlockedRnds(password, environ, config) : Step("locked", None, locked(Self(rnd)))

Encrypt == \E wif \in Wifs : Step("encrypt", Some(wif), encrypt(Self(NoRnd), wif))

Decrypt == \E wif \in EncWifs : Step("decrypt", Some(wif), decrypt(Self(NoRnd), wif))

SaveEncrytpedMaster ==
    \E rnd \in SaveRnds(decrypted_master, password, environ, config) :
        Step("saveEncrytpedMaster", None, saveEncrytpedMaster(Self(rnd)))

GetEncryptedMaster ==
    \E rnd \in SaveRnds(decrypted_master, password, environ, config) :
        Step("getEncryptedMaster", None, getEncryptedMaster(Self(rnd)))

DecryptEncryptedMaster ==
    \E dec \in {"raise", "garbage"} :
        Step("decryptEncryptedMaster", None, decryptEncryptedMaster(Self([NoRnd EXCEPT !.dec = dec])))

RaiseWrongMasterPasswordException ==
    Step("raiseWrongMasterPasswordException", None, raiseWrongMasterPasswordException(Self(NoRnd)))

Next ==
    \/ Unlock
    \/ Lock
    \/ ChangePassword
    \/ NewMaster
    \/ Unlocked
    \/ Locked
    \/ Encrypt
    \/ Decrypt
    \/ SaveEncrytpedMaster
    \/ GetEncryptedMaster
    \/ DecryptEncryptedMaster
    \/ RaiseWrongMasterPasswordException

Spec == Init /\ [][Next]_vars

-----------------------------------------------------------------------------
(* Vocabulary of the properties *)

Wrong == "WrongMasterPasswordException"

\* hist holds exactly the calls named by ops, made on a vault built over an empty store
Ran(ops) == hist.on /\ Len(hist.calls) = Len(ops) /\ OpNames(hist.calls) = ops

Call(i) == hist.calls[i]

\* the stored value splits at "$" into a checksum and a ciphertext
Parses(cfg) == cfg # None /\ Len(Split(Val(cfg), "$")) = 2

\* password pw opens the stored value: it parses, the ciphertext decrypts under
\* pw and the checksum is that of the plaintext
Opens(pw, cfg) ==
    /\ Parses(cfg)
    /\ LET parts == Split(Val(cfg), "$")
           plain == AesDecrypt(pw, parts[2], "raise")
       IN  plain # None /\ parts[1] = deriveChecksum(Val(plain))

-----------------------------------------------------------------------------
(* C1: on a store bootstrapped by unlock(P), after lock(), unlock(Q) with
   Q # P fails with WrongMasterPasswordException and the stored envelope is
   the same string before and after the failed call. *)
C1_WrongPasswordRejected ==
    (/\ Ran(<<"unlock", "lock", "unlock">>)
     /\ Call(1).err = "ok"
     /\ Call(3).arg # Call(1).arg)
    => (/\ last.err = Wrong
        /\ config = last.pre.config
        /\ config # None)

\* a second password was refused on a store the first one bootstrapped
C1_Witness ==
    /\ Ran(<<"unlock", "lock", "unlock">>)
    /\ Call(1).err = "ok"
    /\ Call(3).arg # Call(1).arg
    /\ Truthy(Call(3).arg)
    /\ last.err = Wrong
    /\ Opens(Val(Call(1).arg), config)

(* C2 as stated: for a fresh store and any password P, unlock(P); lock();
   unlock(P) succeeds both times and the master secret after the second
   unlock is the one the first generated. *)
C2_RoundTripAnyPassword ==
    (/\ Ran(<<"unlock", "lock", "unlock">>)
     /\ Call(3).arg = Call(1).arg)
    => (/\ Call(1).err = "ok"
        /\ Call(3).err = "ok"
        /\ Call(3).mk = Call(1).mk
        /\ Call(1).mk # None)

(* C2 amended: for a fresh store and any non-empty password P, unlock(P);
   lock(); unlock(P) succeeds both times and the master secret after the
   second unlock is the one the first generated. *)
C2_RoundTripNonEmptyPassword ==
    (/\ Ran(<<"unlock", "lock", "unlock">>)
     /\ Call(3).arg = Call(1).arg
     /\ Truthy(Call(1).arg))
    => (/\ Call(1).err = "ok"
        /\ Call(3).err = "ok"
        /\ Call(3).mk = Call(1).mk
        /\ Call(1).mk # None
        /\ decrypted_master = generated)

\* the same non-empty password unlocked the vault twice around a lock
C2_Witness ==
    /\ Ran(<<"unlock", "lock", "unlock">>)
    /\ Call(3).arg = Call(1).arg
    /\ Truthy(Call(1).arg)
    /\ Call(3).err = "ok"
    /\ last.pre.password = None
    /\ password = Call(1).arg

\* hist begins with the calls named by ops, made on a vault built over an empty store
Followed(ops) ==
    hist.on /\ Len(hist.calls) >= Len(ops) /\ SubSeq(OpNames(hist.calls), 1, Len(ops)) = ops

\* what C3 says of the unlocks that follow unlock(P); changePassword(Q); lock():
\* under Q they succeed with the master secret of the first unlock, under P
\* they fail with WrongMasterPasswordException
RotationHolds ==
    \A i \in 4..Len(hist.calls) :
        /\ Call(i).arg = Call(2).arg
              => (Call(i).err = "ok" /\ Call(i).mk = Call(1).mk /\ Call(1).mk # None)
        /\ Call(i).arg = Call(1).arg => Call(i).err = Wrong

(* C3 as stated: after unlock(P) then changePassword(Q) with Q # P, a
   subsequent lock() then unlock(Q) succeeds with the master secret of the
   original unlock(P), and a subsequent unlock(P) fails with
   WrongMasterPasswordException. *)
C3_RotationAnyPasswords ==
    (/\ Followed(<<"unlock", "changePassword", "lock", "unlock">>)
     /\ Call(2).arg # Call(1).arg)
    => RotationHolds

(* C3 amended: the same for non-empty passwords P and Q, Q # P; both
   unlock(P) and changePassword(Q) then succeed. *)
C3_RotationNonEmptyPasswords ==
    (/\ Followed(<<"unlock", "changePassword", "lock", "unlock">>)
     /\ Call(2).arg # Call(1).arg
     /\ Truthy(Call(1).arg)
     /\ Truthy(Call(2).arg))
    => (/\ Call(1).err = "ok"
        /\ Call(2).err = "ok"
        /\ RotationHolds)

\* after a rotation from P to Q the vault was unlocked under Q and then refused P
C3_Witness ==
    /\ Followed(<<"unlock", "changePassword", "lock", "unlock", "unlock">>)
    /\ Truthy(Call(1).arg)
    /\ Truthy(Call(2).arg)
    /\ Call(2).arg # Call(1).arg
    /\ Call(4).arg = Call(2).arg
    /\ Call(4).err = "ok"
    /\ Call(4).mk = Call(1).mk
    /\ Call(5).arg = Call(1).arg
    /\ Call(5).err = Wrong

(* C4: in every state where the vault is Locked (no password held: never
   unlocked, after lock(), after a failed unlock), encrypt (wrap) and decrypt
   (unwrap) of a credential fail and produce no result. *)
C4_LockedVaultWrapsNothing ==
    (last.op \in {"encrypt", "decrypt"} /\ last.pre.password = None)
    => (last.err # "ok" /\ last.ret = None)

(* C5: after lock() returns, from any prior state, the vault holds neither
   the password nor the decrypted master secret. *)
C5_LockForgetsMasterSecret ==
    last.op = "lock" => (password = None /\ decrypted_master = None)

(* C6: across any sequence of calls on one vault the master secret is
   generated at most once and only while the store holds no envelope; once
   generated it never changes, so every later successful unlock yields it. *)
C6_MasterSecretGeneratedOnce ==
    /\ last.drawn # << >>
          => (/\ Len(last.drawn) = 1
              /\ last.pre.generated = None
              /\ ~Truthy(last.pre.config))
    /\ (last.op = "unlock" /\ last.err = "ok" /\ generated # None)
          => decrypted_master = generated

(* C7: newMaster(password) on a store that holds a non-empty envelope fails
   with the already-initialised error and leaves the stored envelope, the
   master secret held and the password held unchanged. *)
C7_NewMasterRefusesOverwrite ==
    (last.op = "newMaster" /\ Truthy(last.pre.config))
    => (/\ last.err = "AlreadyHasMaster"
        /\ last.drawn = << >>
        /\ last.writes = 0
        /\ config = last.pre.config
        /\ decrypted_master = last.pre.decrypted_master
        /\ password = last.pre.password)

\* newMaster was refused on a vault that was unlocked over its own envelope
C7_Witness ==
    /\ last.op = "newMaster"
    /\ last.err = "AlreadyHasMaster"
    /\ Truthy(password)
    /\ Opens(Val(password), config)
    /\ last.arg # password

(* C8: whenever unlock(password) fails because the ciphertext does not
   decrypt under the password or the checksum of the plaintext differs from
   the stored one, the error is WrongMasterPasswordException and the vault
   ends with no password held, whatever its prior state; no call that
   surfaces this error leaves a password held. *)
C8_WrongPasswordLocks ==
    /\ (last.op = "unlock" /\ Parses(last.pre.config) /\ ~Opens(Val(last.arg), last.pre.config))
          => (last.err = Wrong /\ password = None)
    /\ last.err = Wrong => password = None

\* a vault unlocked under the right password was unlocked again under a wrong one
C8_Witness ==
    /\ last.op = "unlock"
    /\ last.err = Wrong
    /\ Truthy(last.pre.password)
    /\ Opens(Val(last.pre.password), last.pre.config)
    /\ ~Opens(Val(last.arg), last.pre.config)
    /\ password = None

(* C9: a successful first-run unlock(password) on a store with no envelope
   performs exactly one envelope write to the store; an unlock that fails
   performs none. *)
C9_BootstrapWritesOnce ==
    /\ (last.op = "unlock" /\ last.pre.config = None /\ last.err = "ok") => last.writes = 1
    /\ (last.op = "unlock" /\ last.err # "ok") => last.writes = 0

(* C10: if the stored envelope does not split into exactly one checksum and
   one ciphertext at a single "$" (no "$", more than one, or an empty value),
   unlock(password) fails, the vault is left with no password held and the
   store is unchanged. *)
C10_MalformedEnvelopeLeavesLocked ==
    (last.op = "unlock" /\ last.pre.config # None /\ ~Parses(last.pre.config))
    => (/\ last.err # "ok"
        /\ password = None
        /\ config = last.pre.config)

(* C11: changePassword(newPassword) called with no password held fails and
   changes neither the stored envelope nor the held password and master
   secret; and any failed changePassword leaves the stored envelope and
   whether a non-empty password is held as they were. *)
C11_FailedChangePasswordChangesNothing ==
    /\ (last.op = "changePassword" /\ last.pre.password = None)
          => (/\ last.err # "ok"
              /\ config = last.pre.config
              /\ password = last.pre.password
              /\ decrypted_master = last.pre.decrypted_master)
    /\ (last.op = "changePassword" /\ last.err # "ok")
          => (/\ config = last.pre.config
              /\ Truthy(password) = Truthy(last.pre.password))

(* C12: a credential wrapped by encrypt while the vault is unlocked under P
   unwraps by decrypt to the same raw credential after changePassword(Q),
   lock(), unlock(Q); and decrypt(encrypt(C)) = C for every raw credential C
   while unlocked. *)
C12_WrappedCredentialSurvivesRotation ==
    /\ (/\ Ran(<<"unlock", "encrypt", "changePassword", "lock", "unlock", "decrypt">>)
        /\ Call(1).err = "ok"
        /\ Call(2).err = "ok"
        /\ Call(3).err = "ok"
        /\ Call(5).arg = Call(3).arg
        /\ Call(6).arg = Call(2).ret)
          => (/\ Call(5).err = "ok"
              /\ last.err = "ok"
              /\ last.ret = Call(2).arg)
    /\ (/\ Ran(<<"unlock", "encrypt", "decrypt">>)
        /\ Call(1).err = "ok"
        /\ Call(3).arg = Call(2).ret)
          => (/\ Call(2).err = "ok"
              /\ last.err = "ok"
              /\ last.ret = Call(2).arg)

\* a credential wrapped under the first password was unwrapped after the vault
\* was rotated to a different password, locked and unlocked under the new one
C12_Witness ==
    /\ Ran(<<"unlock", "encrypt", "changePassword", "lock", "unlock", "decrypt">>)
    /\ Call(1).err = "ok"
    /\ Call(2).err = "ok"
    /\ Call(3).err = "ok"
    /\ Call(3).arg # Call(1).arg
    /\ Call(5).arg = Call(3).arg
    /\ Call(5).err = "ok"
    /\ Call(6).arg = Call(2).ret
    /\ last.op = "decrypt"
    /\ last.ret = Call(2).arg
    /\ Opens(Val(Call(3).arg), config)
    /\ ~Opens(Val(Call(1).arg), config)

-----------------------------------------------------------------------------
(* The store altered outside the vault *)

\* the string that collides with master secret m on the checksum
Colliding(m) ==
    CASE m = Master1 -> Collision1
      [] m = Master2 -> Collision2
      [] m = Master3 -> Collision3
      [] m = Master4 -> Collision4

\* what an alteration of the ciphertext enc of a master secret can leave, the
\* cipher being unauthenticated: a string that no longer decrypts, one that
\* decrypts to another plaintext (the empty one), one that decrypts to another
\* plaintext of the same checksum, and one that holds the delimiter "$"
Altered(enc) ==
    LET e == FirstEq(enc)
        head == SubSeq(enc, 1, e)
        plain == SubSeq(enc, e + 1, Len(enc))
    IN  { << "?" >> \o enc,
          head,
          head \o Colliding(plain),
          head \o << "$" >> \o plain }

\* the stored value is an envelope of a master secret, as the vault writes it
IsEnvelope(cfg) ==
    /\ cfg # None
    /\ LET parts == Split(Val(cfg), "$") IN
       /\ Len(parts) = 2
       /\ FirstEq(parts[2]) >= 2
       /\ SubSeq(parts[2], FirstEq(parts[2]) + 1, Len(parts[2])) \in Masters
       /\ parts[1] = deriveChecksum(SubSeq(parts[2], FirstEq(parts[2]) + 1, Len(parts[2])))

\* the ciphertext part of the stored envelope is altered, the checksum part kept
Tamper ==
    /\ tampered = None
    /\ IsEnvelope(config)
    /\ \E a \in Altered(Split(Val(config), "$")[2]) :
          config' = Some(Split(Val(config), "$")[1] \o << "$" >> \o a)
    /\ tampered' = config
    /\ last' = [op |-> "tamper", arg |-> None, err |-> "ok", ret |-> None,
                writes |-> 0, drawn |-> << >>,
                pre |-> [password |-> password,
                         decrypted_master |-> decrypted_master,
                         config |-> config, generated |-> generated]]
    /\ hist' = [on |-> FALSE, calls |-> << >>]
    /\ UNCHANGED <<password, decrypted_master, environ, generated>>
    /\ UNCHANGED apiVars

\* a vault over an empty store or over an envelope of an earlier run, with no
\* credential in the environment
InitTamper == Init /\ config \in {None, Some(StoredEnvelope)} /\ environ = None

NextTamper ==
    \/ Unlock
    \/ Lock
    \/ Tamper

SpecTamper == InitTamper /\ [][NextTamper]_vars

\* the master secret the envelope cfg holds for password pw: None when pw does not open it
MasterIn(pw, cfg) ==
    IF Opens(pw, cfg) THEN AesDecrypt(pw, Split(Val(cfg), "$")[2], "raise") ELSE None

(* C13 as stated: after the ciphertext part of the stored envelope was
   altered, unlock(P) with the password P that opened the envelope fails with
   WrongMasterPasswordException or with the error of a malformed envelope, and
   never succeeds with a master secret other than the one stored before. *)
C13_AlteredCiphertextRejected ==
    (/\ last.op = "unlock"
     /\ tampered # None
     /\ Opens(Val(last.arg), tampered))
    => (/\ last.err \in {Wrong, "ValueError"}
        /\ decrypted_master # MasterIn(Val(last.arg), tampered) => last.err # "ok")

(* C13 amended: after the ciphertext part was altered, unlock(P) with the
   password P that opened the envelope fails with WrongMasterPasswordException
   or with the error of a malformed envelope unless the altered ciphertext
   decrypts under P to a value with the stored checksum; it never succeeds
   with a master secret whose checksum is not the stored one. *)
C13_AlteredCiphertextRejectedUnlessChecksumCollides ==
    (/\ last.op = "unlock"
     /\ tampered # None
     /\ Opens(Val(last.arg), tampered))
    => (/\ last.err \in {Wrong, "ValueError", "ok"}
        /\ ~Opens(Val(last.arg), last.pre.config) => last.err \in {Wrong, "ValueError"}
        /\ last.err = "ok" =>
              /\ decrypted_master # None
              /\ deriveChecksum(Val(decrypted_master)) = Split(Val(tampered), "$")[1])

\* the right password was refused on an envelope whose altered ciphertext
\* decrypts to another plaintext
C13_Witness ==
    /\ last.op = "unlock"
    /\ tampered # None
    /\ Opens(Val(last.arg), tampered)
    /\ config # tampered
    /\ Parses(config)
    /\ AesDecrypt(Val(last.arg), Split(Val(config), "$")[2], "raise") = Some(<< >>)
    /\ last.err = Wrong
    /\ password = None

(* C14: the class has no option that enables the implicit unlock, so every
   call is one made without opting in: unlocked() on a vault with no password
   held returns False and changes neither the vault nor the store, whatever
   the environment variable UNLOCK holds. *)
C14_NoImplicitUnlockWithoutOptIn ==
    (last.op = "unlocked" /\ last.pre.password = None)
    => (/\ last.err = "ok"
        /\ last.ret = FALSE
        /\ password = None
        /\ decrypted_master = last.pre.decrypted_master
        /\ config = last.pre.config
        /\ last.writes = 0)

(* C15: in every reachable state in which unlocked() reports True (a
   non-empty password is held), a master secret is held and the envelope in
   the store decrypts under the held password to exactly that master secret,
   with the stored checksum matching. *)
C15_UnlockedPasswordOpensStore ==
    Truthy(password)
    => (/\ decrypted_master # None
        /\ Opens(Val(password), config)
        /\ MasterIn(Val(password), config) = decrypted_master)

(* C16: locked() and unlocked() return a boolean and raise nothing; with no
   password held and an UNLOCK value in the environment that does not open
   the stored envelope, unlocked() returns False and locked() True, no
   password is held afterwards and the store is unchanged. *)
C16_StateQueriesNeverRaise ==
    /\ last.op \in {"locked", "unlocked"}
          => (last.err = "ok" /\ last.ret \in BOOLEAN)
    /\ (/\ last.op \in {"locked", "unlocked"}
        /\ last.pre.password = None
        /\ Truthy(environ)
        /\ last.pre.config # None
        /\ ~Opens(Val(environ), last.pre.config))
          => (/\ last.err = "ok"
              /\ last.ret = (last.op = "locked")
              /\ password = None
              /\ config = last.pre.config)

-----------------------------------------------------------------------------
(* grapheneapi.api.Api: the RPC proxy that fails over between node URLs.

   The object is a record of its fields. A dict is the sequence of its
   [k, v] entries in insertion order; cycle(urls) is the list and the
   position of the element next() returns. The connection object is a record
   [kind, url, ws] after grapheneapi.websocket.Websocket: ws is "none" (no
   socket), "unconnected" (a socket whose connect raised) or "connected".

   connect() re-enters itself through next(); the frames it leaves behind do
   nothing on return but assign _active_url = url again (lines 72-73), so one
   activation is one step: it ends connected, with an exception, or about to
   re-enter connect() ("reconnect"). A proxied call is a call of the function
   __getattr__ returns; one iteration of its loop is one step. Between two
   proxied calls the caller may also call connect(), next(), find_next(),
   reset_counter() and error_url() itself, and use the connection the
   property connection gives. *)

\* Bounds of the Api model
MaxRetries == 1         \* num_retries ranges over -1..MaxRetries
MaxUrls == 2            \* the longest list of URLs given to the constructor

\* a URL is not failed more often than this in the model: a caller may repeat
\* a failing call forever, and with num_retries < 0 the failover never ends
FailureCap == MaxRetries + 2

\* _cnt_retries does not grow beyond this in the model
RetryCap == 2

WsA == <<"w", "s", ":", "/", "/", "a">>
WssB == <<"w", "s", "s", ":", "/", "/", "b">>
FtpC == <<"f", "t", "p", ":", "/", "/", "c">>

\* the URLs a caller configures: two websocket nodes and one of a scheme the
\* class does not support
UrlPool == {WsA, WssB, FtpC}
\* the lists given to the constructor, up to the exchange of the two
\* websocket nodes: the first websocket URL of a list is ws://a
UrlLists ==
    {l \in UNION {[1..n -> UrlPool] : n \in 1..MaxUrls} :
        \A i \in 1..Len(l) : l[i] = WssB => \E j \in 1..(i - 1) : l[j] = WsA}
NumRetries == (0 - 1)..MaxRetries

\* s[:n]
Prefix(s, n) == SubSeq(s, 1, IF n < Len(s) THEN n ELSE Len(s))

\* dict: membership, lookup and assignment
Has(d, k) == \E i \in 1..Len(d) : d[i].k = k
Get(d, k) == d[CHOOSE i \in 1..Len(d) : d[i].k = k].v
Put(d, k, v) ==
    IF Has(d, k)
    THEN [i \in 1..Len(d) |-> IF d[i].k = k THEN [k |-> k, v |-> v] ELSE d[i]]
    ELSE Append(d, [k |-> k, v |-> v])

\* the loop of lines 33-34: a zero counter for every URL of the list
RECURSIVE ZeroCounters(_, _)
ZeroCounters(d, urls) ==
    IF urls = << >> THEN d ELSE ZeroCounters(Put(d, Head(urls), 0), Tail(urls))

\* __init__(urls, num_retries=...) up to its call of connect()
ApiInit(urls, num_retries) ==
    [url_counter |-> ZeroCounters(<< >>, urls),
     num_retries |-> num_retries,
     url |-> urls[1],
     active_url |-> None,
     active_connection |-> None,
     urls |-> [items |-> urls, at |-> 1],
     cnt_retries |-> 0]

\* Websocket.connect(): makes a socket and connects it, which may raise
WebsocketConnect(c, ok) == [c EXCEPT !.ws = IF ok THEN "connected" ELSE "unconnected"]

\* Websocket.disconnect(): closes and drops the socket if there is one; when
\* close() raises the exception is swallowed and the socket is kept
WebsocketDisconnect(c, closes) ==
    IF c.ws # "none" /\ closes THEN [c EXCEPT !.ws = "none"] ELSE c

\* Websocket.rpcexec() that got an answer: it connects first when there is no socket
WebsocketAnswered(c) == [c EXCEPT !.ws = "connected"]

\* Websocket.rpcexec() that raised or was interrupted: entered without a
\* socket it has called connect() first (lines 42-43), and sock is the socket
\* that call left: "unconnected" when the connect raised, "connected" when
\* the send or the receive raised, "none" when an interrupt came before the
\* socket was made. A socket already there is kept
WebsocketFailed(c, sock) == IF c.ws = "none" THEN [c EXCEPT !.ws = sock] ELSE c

\* the property connection: a new connection object when the active URL is
\* not the current one, the object held otherwise
connection(a) ==
    IF a.active_url # Some(a.url)
    THEN IF Prefix(a.url, 2) = <<"w", "s">>
         THEN LET c == [kind |-> "Websocket", url |-> a.url, ws |-> "none"]
              IN  Ok([a EXCEPT !.active_connection = Some(c)], Some(c))
         ELSE IF Prefix(a.url, 4) = <<"h", "t", "t", "p">>
         THEN LET c == [kind |-> "Http", url |-> a.url, ws |-> "none"]
              IN  Ok([a EXCEPT !.active_connection = Some(c)], Some(c))
         ELSE Raise(a, "ValueError")
    ELSE Ok(a, a.active_connection)

\* find_next() without the test of the failure counter (line 101)
find_nextIgnoringCounter(a) ==
    IF a.num_retries < 0
    THEN Ok([a EXCEPT !.cnt_retries = @ + 1,
                      !.urls.at = (@ % Len(a.urls.items)) + 1],
            a.urls.items[a.urls.at])
    ELSE LET Test(e) == a.num_retries >= 0
                        /\ (e.k # a.url \/ Len(a.url_counter) = 1)
             urls == SelectSeq(a.url_counter, Test)
         IN  IF Len(urls) = 0 THEN Raise(a, "NumRetriesReached")
             ELSE Ok(a, urls[1].k)

\* find_next() without the test that skips the current URL (line 104)
find_nextKeepingCurrent(a) ==
    IF a.num_retries < 0
    THEN Ok([a EXCEPT !.cnt_retries = @ + 1,
                      !.urls.at = (@ % Len(a.urls.items)) + 1],
            a.urls.items[a.urls.at])
    ELSE LET Test(e) == a.num_retries >= 0
                        /\ e.v <= a.num_retries
             urls == SelectSeq(a.url_counter, Test)
         IN  IF Len(urls) = 0 THEN Raise(a, "NumRetriesReached")
             ELSE Ok(a, urls[1].k)

\* find_next(): with num_retries < 0 the next element of cycle(urls) (after a
\* sleep); otherwise the first URL of the counter dict that has failed at most
\* num_retries times and is not the current one, unless it is the only one;
\* NumRetriesReached when there is none
find_next(a) ==
    IF a.num_retries < 0
    THEN Ok([a EXCEPT !.cnt_retries = @ + 1,
                      !.urls.at = (@ % Len(a.urls.items)) + 1],
            a.urls.items[a.urls.at])
    ELSE LET Test(e) == a.num_retries >= 0
                        /\ e.v <= a.num_retries
                        /\ (e.k # a.url \/ Len(a.url_counter) = 1)
             urls == SelectSeq(a.url_counter, Test)
         IN  IF Len(urls) = 0 THEN Raise(a, "NumRetriesReached")
             ELSE Ok(a, urls[1].k)

\* reset_counter()
reset_counter(a) ==
    [a EXCEPT !.cnt_retries = 0,
              !.url_counter = [i \in 1..Len(@) |-> [k |-> @[i].k, v |-> 0]]]

\* error_url() that counts nothing
error_urlNotCounting(a) == a

\* error_url(): one more failure of the current URL
error_url(a) ==
    IF Has(a.url_counter, a.url)
    THEN [a EXCEPT !.url_counter = Put(@, a.url, Get(@, a.url) + 1)]
    ELSE [a EXCEPT !.url_counter = Put(@, a.url, 1)]

\* next() up to its call of connect(): disconnects the connection, moves to the
\* URL find_next returns
next(a, closes) ==
    LET c == connection(a) IN
    IF c.err # "ok" THEN Raise(c.st, c.err)
    ELSE LET f == find_next([c.st EXCEPT !.active_connection =
                                            Some(WebsocketDisconnect(Val(@), closes))])
         IN  IF f.err # "ok" THEN Raise(f.st, f.err)
             ELSE Ok([f.st EXCEPT !.url = f.ret], "reconnect")

\* one activation of connect(): the connection connects (ok) and the URL
\* becomes the active one, or the failure is counted and next() moves on
connect(a, ok, closes) ==
    LET c == connection(a) IN
    IF c.err = "ok" /\ ok
    THEN Ok([c.st EXCEPT !.active_connection = Some(WebsocketConnect(Val(@), TRUE)),
                         !.active_url = Some(c.st.url)], "connected")
    ELSE IF c.err = "ok"
    THEN next(error_url([c.st EXCEPT !.active_connection =
                                        Some(WebsocketConnect(Val(@), FALSE))]), closes)
    ELSE next(error_url(c.st), closes)

\* post_process_exception(exception): raises it
post_process_exception(a, exception) == Raise(a, exception)

\* one iteration of the loop of a proxied call that retries after an RPCError
\* as it does after an IOError
funcRetryingRpcError(a, outcome, sock, closes) ==
    LET c == connection(a) IN
    IF c.err # "ok" THEN Raise(c.st, c.err)
    ELSE IF outcome = "ok"
    THEN Ok(reset_counter([c.st EXCEPT !.active_connection =
                                          Some(WebsocketAnswered(Val(@)))]), "returned")
    ELSE IF outcome = "KeyboardInterrupt"
    THEN Raise([c.st EXCEPT !.active_connection = Some(WebsocketFailed(Val(@), sock))],
               "KeyboardInterrupt")
    ELSE next(error_url([c.st EXCEPT !.active_connection =
                                        Some(WebsocketFailed(Val(@), sock))]), closes)

\* one iteration of the loop of a proxied call (the function __getattr__
\* returns): the method of the connection is called; its result is returned
\* and the counters reset, a KeyboardInterrupt is raised again with nothing
\* done, an RPCError is raised to the caller, and after any other exception
\* the failure is counted and next() moves on. The method has gone through
\* rpcexec, which leaves the socket sock when it was entered without one
func(a, outcome, sock, closes) ==
    LET c == connection(a) IN
    IF c.err # "ok" THEN Raise(c.st, c.err)
    ELSE IF outcome = "ok"
    THEN Ok(reset_counter([c.st EXCEPT !.active_connection =
                                          Some(WebsocketAnswered(Val(@)))]), "returned")
    ELSE IF outcome = "KeyboardInterrupt"
    THEN Raise([c.st EXCEPT !.active_connection = Some(WebsocketFailed(Val(@), sock))],
               "KeyboardInterrupt")
    ELSE IF outcome = "RPCError"
    THEN post_process_exception([c.st EXCEPT !.active_connection =
                                                Some(WebsocketAnswered(Val(@)))], "RPCError")
    ELSE next(error_url([c.st EXCEPT !.active_connection =
                                        Some(WebsocketFailed(Val(@), sock))]), closes)

\* what a call of the connection's method can do: return, be interrupted
\* (KeyboardInterrupt), raise RPCError, raise IOError or raise another
\* exception; a socket that never connected cannot answer
CallOutcomes(a) ==
    IF a.active_url = Some(a.url) /\ Val(a.active_connection).ws = "unconnected"
    THEN {"KeyboardInterrupt", "IOError", "Exception"}
    ELSE {"ok", "KeyboardInterrupt", "RPCError", "IOError", "Exception"}

\* the sockets a call entered without one can leave, by its outcome: an
\* answer needs a connected one, an error comes from the connect or from the
\* send or receive after it, an interrupt may also come before the connect
CallSockets(outcome) ==
    IF outcome \in {"ok", "RPCError"} THEN {"connected"}
    ELSE IF outcome = "KeyboardInterrupt" THEN {"none", "unconnected", "connected"}
    ELSE {"unconnected", "connected"}

\* no counter above the cap of the model
WithinCap(a) ==
    /\ \A i \in 1..Len(a.url_counter) : a.url_counter[i].v <= FailureCap
    /\ a.cnt_retries <= RetryCap

\* the run a call of the caller begins
NewRun(mode) ==
    [mode |-> mode, attempts |-> 0, allFailed |-> TRUE, result |-> "pending",
     step |-> "start", outcome |-> "none", pre |-> api, found |-> None]

\* the effect of a step whose result is r, in the run r0 it begins or goes on
\* with. The attempts of a run are its activations of connect() and its
\* iterations of the loop of a proxied call; an attempt failed when it ended
\* with an error of the node or the class (not an RPCError, nor an interrupt
\* of the caller)
ApiStepOf(r0, step, outcome, r) ==
    /\ WithinCap(r.st)
    /\ api' = r.st
    /\ pc' = IF r.err # "ok" THEN (IF r0.mode = "init" THEN "failed" ELSE "idle")
             ELSE IF r.ret = "reconnect" THEN "connect"
             ELSE IF r.ret = "connected" /\ r0.mode = "call" THEN "call"
             ELSE "idle"
    /\ run' = [mode |-> r0.mode,
               attempts |-> r0.attempts + (IF step \in {"connect", "call"} THEN 1 ELSE 0),
               allFailed |-> r0.allFailed
                             /\ (r.err \notin {"ok", "RPCError", "KeyboardInterrupt"}
                                 \/ r.ret = "reconnect"),
               result |-> IF r.err # "ok" THEN r.err
                          ELSE IF r.ret = "reconnect" THEN "pending"
                          ELSE IF r.ret = "connected" /\ r0.mode = "call" THEN "pending"
                          ELSE "ok",
               step |-> step,
               outcome |-> outcome,
               pre |-> api,
               found |-> IF r.err = "ok" /\ r.ret = "reconnect" THEN Some(r.st.url) ELSE None]
    /\ UNCHANGED vaultVars

\* the effect of a step of the run in progress
ApiStep(step, outcome, r) == ApiStepOf(run, step, outcome, r)

\* the effect of a method that returns at once, called while no run is in
\* progress: it leaves the Api a. It is recorded by its name, its result and
\* the Api it left, which has the URL it was called on (none of these methods
\* assigns url)
ApiCall(mode, a, err, found) ==
    /\ WithinCap(a)
    /\ api' = a
    /\ pc' = pc
    /\ run' = [NewRun(mode) EXCEPT !.allFailed = FALSE, !.result = err,
                                   !.step = mode, !.found = found, !.pre = a]
    /\ UNCHANGED vaultVars

\* Api(urls, num_retries=n) has set its fields and is about to call connect()
InitApi ==
    /\ password = None
    /\ decrypted_master = None
    /\ config = None
    /\ environ = None
    /\ last = [op |-> "init", arg |-> None, err |-> "ok", ret |-> None,
               writes |-> 0, drawn |-> << >>,
               pre |-> [password |-> None, decrypted_master |-> None,
                        config |-> None, generated |-> None]]
    /\ generated = None
    /\ hist = [on |-> FALSE, calls |-> << >>]
    /\ tampered = None
    /\ \E urls \in UrlLists, n \in NumRetries : api = ApiInit(urls, n)
    /\ pc = "connect"
    /\ run = [NewRun("init") EXCEPT !.step = "construct"]

\* connect() is entered: from the constructor, or from next()
Connect ==
    /\ pc = "connect"
    /\ \E ok \in BOOLEAN, closes \in BOOLEAN :
          ApiStep("connect", IF ok THEN "ok" ELSE "fail", connect(api, ok, closes))

\* the caller calls a proxied RPC method
ProxiedCall ==
    /\ pc = "idle"
    /\ pc' = "call"
    /\ run' = NewRun("call")
    /\ UNCHANGED api
    /\ UNCHANGED vaultVars

\* one iteration of the loop of the proxied call
CallAttempt ==
    /\ pc = "call"
    /\ \E outcome \in CallOutcomes(api), closes \in BOOLEAN :
          \E sock \in CallSockets(outcome) :
              ApiStep("call", outcome, func(api, outcome, sock, closes))

\* the caller calls connect()
CallConnect ==
    /\ pc = "idle"
    /\ \E ok \in BOOLEAN, closes \in BOOLEAN :
          ApiStepOf(NewRun("connect"), "connect", IF ok THEN "ok" ELSE "fail",
                    connect(api, ok, closes))

\* the caller calls next()
CallNext ==
    /\ pc = "idle"
    /\ \E closes \in BOOLEAN : ApiStepOf(NewRun("next"), "next", "none", next(api, closes))

\* the caller calls find_next()
CallFindNext ==
    /\ pc = "idle"
    /\ LET f == find_next(api) IN
       ApiCall("find_next", f.st, f.err, IF f.err = "ok" THEN Some(f.ret) ELSE None)

\* the caller calls reset_counter()
CallResetCounter ==
    /\ pc = "idle"
    /\ ApiCall("reset_counter", reset_counter(api), "ok", None)

\* the caller calls error_url()
CallErrorUrl ==
    /\ pc = "idle"
    /\ ApiCall("error_url", error_url(api), "ok", None)

\* the connection the property connection gives the caller
Given == Val(connection(api).ret)

\* the caller uses api.connection: the property is read, which may replace
\* the connection held, and the method called leaves the connection as `after`
UseConnection(mode, after, err) ==
    LET c == connection(api) IN
    IF c.err # "ok" THEN ApiCall(mode, c.st, c.err, None)
    ELSE ApiCall(mode, [c.st EXCEPT !.active_connection = Some(after)], err, None)

\* the caller reads api.connection
ReadConnection ==
    /\ pc = "idle"
    /\ UseConnection("connection", Given, "ok")

\* the caller calls api.connection.connect()
ConnectionConnect ==
    /\ pc = "idle"
    /\ \E ok \in BOOLEAN :
          UseConnection("connection.connect", WebsocketConnect(Given, ok),
                        IF ok THEN "ok" ELSE "Exception")

\* the caller calls api.connection.disconnect()
ConnectionDisconnect ==
    /\ pc = "idle"
    /\ \E closes \in BOOLEAN :
          UseConnection("connection.disconnect", WebsocketDisconnect(Given, closes), "ok")

\* the caller calls an RPC method of api.connection, which goes through rpcexec
ConnectionCall ==
    /\ pc = "idle"
    /\ \E outcome \in CallOutcomes(api) :
          \E sock \in CallSockets(outcome) :
              UseConnection("connection.call",
                            IF outcome \in {"ok", "RPCError"}
                            THEN WebsocketAnswered(Given)
                            ELSE WebsocketFailed(Given, sock),
                            outcome)

NextApi ==
    \/ Connect
    \/ ProxiedCall
    \/ CallAttempt
    \/ CallConnect
    \/ CallNext
    \/ CallFindNext
    \/ CallResetCounter
    \/ CallErrorUrl
    \/ ReadConnection
    \/ ConnectionConnect
    \/ ConnectionDisconnect
    \/ ConnectionCall

SpecApi == InitApi /\ [][NextApi]_vars

-----------------------------------------------------------------------------
(* Vocabulary of the properties of the Api *)

\* the class has a connection class for the URL
Supported(url) == Prefix(url, 2) = <<"w", "s">> \/ Prefix(url, 4) = <<"h", "t", "t", "p">>

AllSupported == \A i \in 1..Len(api.urls.items) : Supported(api.urls.items[i])

\* the connect() or proxied call has ended and every attempt it made failed
\* with another error than RPCError
EndedAllFailed == pc \in {"idle", "failed"} /\ run.attempts > 0 /\ run.allFailed

\* the most attempts a connect() or proxied call makes while all of them fail
AttemptBound == Len(api.url_counter) * (api.num_retries + 1)

(* C17 as stated: with num_retries >= 0, a connect() or proxied call in which
   every attempt fails with a non-RPC error makes a bounded number of
   attempts and ends by raising NumRetriesReached. *)
C17_AllFailingEndsInNumRetriesReached ==
    api.num_retries >= 0
    => (/\ run.allFailed => run.attempts <= AttemptBound
        /\ EndedAllFailed => run.result = "NumRetriesReached")

(* C17 amended: with num_retries >= 0 and every configured URL of a supported
   scheme (ws, wss, http, https), a connect() or proxied call in which every
   attempt fails with a non-RPC error makes at most
   (num_retries + 1) * (number of distinct URLs) attempts and ends by raising
   NumRetriesReached; with an unsupported URL in the list it also ends within
   that many attempts, by raising NumRetriesReached or ValueError. *)
C17_AllFailingEndsInNumRetriesReachedOnSupportedUrls ==
    api.num_retries >= 0
    => (/\ run.allFailed => run.attempts <= AttemptBound
        /\ (EndedAllFailed /\ AllSupported) => run.result = "NumRetriesReached"
        /\ EndedAllFailed => run.result \in {"NumRetriesReached", "ValueError"})

\* a proxied call over two URLs failed on every attempt, made as many attempts
\* as the bound allows and raised NumRetriesReached
C17_Witness ==
    /\ pc = "idle"
    /\ run.mode = "call"
    /\ run.allFailed
    /\ api.num_retries >= 1
    /\ Len(api.url_counter) > 1
    /\ AllSupported
    /\ run.attempts = AttemptBound
    /\ run.result = "NumRetriesReached"

(* C18: with num_retries >= 0, the URL find_next returns has a failure
   counter smaller than num_retries, as the comment of lines 99-100 says. The
   test of line 101 is v <= num_retries. *)
C18_FoundUrlFailedLessThanNumRetries ==
    (run.found # None /\ api.num_retries >= 0)
    => Get(api.url_counter, Val(run.found)) < api.num_retries

(* What the test of line 101 does keep, beside C18: with num_retries >= 0,
   the URL find_next returns has a failure counter of at most num_retries. *)
C18_FoundUrlFailedAtMostNumRetries ==
    (run.found # None /\ api.num_retries >= 0)
    => Get(api.url_counter, Val(run.found)) <= api.num_retries

\* the failover moved to a URL that had failed exactly num_retries times
C18_Witness ==
    /\ run.found # None
    /\ api.num_retries >= 1
    /\ Get(api.url_counter, Val(run.found)) = api.num_retries

(* C19 as stated: with more than one URL configured, the URL find_next
   returns after a failed attempt is not the URL that just failed. *)
C19_FailoverLeavesFailedUrl ==
    (run.found # None /\ Len(api.url_counter) > 1)
    => Val(run.found) # run.pre.url

(* C19 amended: with num_retries >= 0 and more than one URL configured, the
   URL find_next returns after a failed attempt is not the URL that just
   failed; the same URL is returned only when it is the sole configured
   URL. *)
C19_FailoverLeavesFailedUrlWhenRetriesCounted ==
    (run.found # None /\ api.num_retries >= 0)
    => (/\ Len(api.url_counter) > 1 => Val(run.found) # run.pre.url
        /\ Val(run.found) = run.pre.url => Len(api.url_counter) = 1)

\* the failover left a URL that had not used up its retries for another one
C19_Witness ==
    /\ run.found # None
    /\ api.num_retries >= 0
    /\ Len(api.url_counter) > 1
    /\ Val(run.found) # run.pre.url
    /\ Get(api.url_counter, run.pre.url) <= api.num_retries

\* the step was an iteration of a proxied call whose method raised RPCError
RpcErrorRaised ==
    /\ run.step = "call"
    /\ run.outcome = "RPCError"
    /\ connection(run.pre).err = "ok"

(* C20 as stated: an RPCError raised by the method of the connection is
   raised to the caller by that iteration: no retry follows, no failure
   counter changes, and the current URL, the active URL and the connection
   are as before. *)
C20_RpcErrorPropagatedUnchanged ==
    RpcErrorRaised
    => (/\ pc = "idle"
        /\ run.result = "RPCError"
        /\ api.url_counter = run.pre.url_counter
        /\ api.url = run.pre.url
        /\ api.active_url = run.pre.active_url
        /\ api.active_connection = run.pre.active_connection)

(* C20 amended: an RPCError raised by the method of the connection is raised
   to the caller by that iteration: no retry follows, no failure counter
   changes and the current URL and the active URL are as before; the
   connection is as before when it was the connected connection of the
   active URL, and otherwise (after a failover that ended in an exception) it
   is a connected connection made or opened for the call. *)
C20_RpcErrorPropagatedConnectionKeptIfOpen ==
    RpcErrorRaised
    => (/\ pc = "idle"
        /\ run.result = "RPCError"
        /\ api.url_counter = run.pre.url_counter
        /\ api.url = run.pre.url
        /\ api.active_url = run.pre.active_url
        /\ api.active_connection # None
        /\ Val(api.active_connection).ws = "connected"
        /\ (/\ run.pre.active_url = Some(run.pre.url)
            /\ Val(run.pre.active_connection).ws = "connected")
              => api.active_connection = run.pre.active_connection)

\* an RPCError was raised to the caller on a connected connection while a
\* failure counter was above zero
C20_Witness ==
    /\ RpcErrorRaised
    /\ pc = "idle"
    /\ run.result = "RPCError"
    /\ run.pre.active_url = Some(run.pre.url)
    /\ Val(run.pre.active_connection).ws = "connected"
    /\ api.active_connection = run.pre.active_connection
    /\ \E i \in 1..Len(api.url_counter) : api.url_counter[i].v > 0

====
